---- MODULE Spec2Model ----
(***************************************************************************)
(* Model of the consistent-hashing ring of src/src/main.rs:                *)
(* HashRing<T, R> { keys: BTreeMap<u64, T>, hasher: Mutex<DefaultHasher> } *)
(* with its operations From<Vec<T>>, add_node, remove_node and get_node.   *)
(***************************************************************************)
EXTENDS Integers, Sequences, FiniteSets, TLC

(* ----------------------------- bounds ---------------------------------- *)
\* number of distinct node values (type T)
NumNodes == 3
\* number of distinct lookup keys (type R)
NumKeys == 2
\* size of the position space (stands for the 2^64 digests of u64)
NumPos == 3
\* longest vector handed to HashRing::from
MaxVec == 2
\* number of threads calling into one ring
NumThreads == 2

Nodes == 1..NumNodes
Keys == (NumNodes + 1)..(NumNodes + NumKeys)
Values == Nodes \cup Keys
Positions == 0..(NumPos - 1)
Threads == 1..NumThreads
\* Option::None of get_node's Option<&T>
None == 0

VARIABLES
    keys,      \* HashRing.keys: the BTreeMap, a function position -> node
    hasher,    \* HashRing.hasher: the accumulator inside the Mutex,
               \* the sequence of values fed to it so far
    digest,    \* the digest DefaultHasher gives each single value
    panicked,  \* TRUE once a call has panicked (the thread unwinds)
    memo,      \* per key, the results get_node returned since the last
               \* add_node/remove_node
    op,        \* the last call: its name, argument(s), return value and
               \* the ring it was made on
    trail,     \* when the last call is add_node/remove_node(n) and the call
               \* before it was add_node(n): <<map before that add_node>>;
               \* <<>> otherwise
    lock,      \* the Mutex around the hasher: the thread whose guard is
               \* alive, Free if none
    thr        \* per thread, the call it is in: its position in the call,
               \* the call's name and argument, its owned copy of the
               \* accumulator and the position it computed

vars == <<keys, hasher, digest, panicked, memo, op, trail, lock, thr>>

(* ------------------------- the hasher ---------------------------------- *)
\* DefaultHasher::new(): nothing written yet
NewHasher == <<>>

\* Hash::hash(&value, &mut state): feeds the value to the accumulator
Write(acc, v) == Append(acc, v)

RECURSIVE SumDigest(_, _)
SumDigest(d, acc) ==
    IF acc = <<>> THEN 0
    ELSE (d[Head(acc)] + SumDigest(d, Tail(acc))) % NumPos

\* Hasher::finish: the digest is a function of everything written so far;
\* for an accumulator fed exactly one value v it is d[v]
Finish(d, acc) == SumDigest(d, acc)

\* a hash computation that feeds the shared accumulator itself
HashValueInPlace(d, h, v) ==
    [hash_key |-> Finish(d, Write(h, v)), hasher |-> Write(h, v)]

\* lines 41-43, 49-51, 66-68: copy the locked accumulator (to_owned), feed
\* the copy, finish; the shared accumulator is left as it was
HashValue(d, h, v) ==
    LET copy == h
    IN  [hash_key |-> Finish(d, Write(copy, v)), hasher |-> h]

(* ------------------------- the BTreeMap -------------------------------- *)
EmptyMap == <<>>

Min(S) == CHOOSE x \in S : \A y \in S : x <= y
Max(S) == CHOOSE x \in S : \A y \in S : x >= y

\* BTreeMap::insert(k, v): adds the entry or overwrites the one at k
Insert(m, k, v) == [p \in (DOMAIN m) \cup {k} |-> IF p = k THEN v ELSE m[p]]

\* BTreeMap::remove(&k)
Remove(m, k) == [p \in (DOMAIN m) \ {k} |-> m[p]]

\* the map's positions in iteration (ascending) order
RECURSIVE SortedKeys(_)
SortedKeys(S) ==
    IF S = {} THEN <<>>
    ELSE <<Min(S)>> \o SortedKeys(S \ {Min(S)})

\* a range that excludes its lower bound
RangeExclusive(m, k) == {p \in DOMAIN m : p > k}

\* BTreeMap::range(k..): the positions >= k
Range(m, k) == {p \in DOMAIN m : p >= k}

(* ------------------------- the operations ------------------------------ *)
\* add_node without the overwrite: keeps the first occupant of a position
AddNodeKeepFirst(m, hash_key, node) ==
    IF hash_key \in DOMAIN m THEN m ELSE Insert(m, hash_key, node)

\* add_node, line 45
AddNodeKeys(m, hash_key, node) == Insert(m, hash_key, node)

\* remove_node with an exclusive lower bound on the range
RemoveNodeKeysExclusive(m, hash_key) ==
    IF DOMAIN m = {} THEN [panic |-> FALSE, keys |-> m]
    ELSE IF Range(m, hash_key + 1) = {} THEN [panic |-> TRUE, keys |-> m]
    ELSE [panic |-> FALSE, keys |-> Remove(m, Min(Range(m, hash_key + 1)))]

\* remove_node without the is_empty early return
RemoveNodeKeysNoEmptyCheck(m, hash_key) ==
    IF Range(m, hash_key) = {} THEN [panic |-> TRUE, keys |-> m]
    ELSE [panic |-> FALSE, keys |-> Remove(m, Min(Range(m, hash_key)))]

\* remove_node that removes only an entry at exactly hash_key
RemoveNodeKeysExact(m, hash_key) ==
    IF hash_key \in DOMAIN m
    THEN [panic |-> FALSE, keys |-> Remove(m, hash_key)]
    ELSE [panic |-> FALSE, keys |-> m]

\* remove_node taking the last position of the range (next_back)
RemoveNodeKeysLast(m, hash_key) ==
    IF DOMAIN m = {} THEN [panic |-> FALSE, keys |-> m]
    ELSE IF Range(m, hash_key) = {} THEN [panic |-> TRUE, keys |-> m]
    ELSE [panic |-> FALSE, keys |-> Remove(m, Max(Range(m, hash_key)))]

\* remove_node, lines 53-58: the map after the call; panic is TRUE when
\* range(hash_key..).next() is None and unwrap() panics
RemoveNodeKeys(m, hash_key) ==
    IF DOMAIN m = {} THEN [panic |-> FALSE, keys |-> m]
    ELSE IF Range(m, hash_key) = {} THEN [panic |-> TRUE, keys |-> m]
    ELSE [panic |-> FALSE, keys |-> Remove(m, Min(Range(m, hash_key)))]

\* the scan with a strict comparison
RECURSIVE ScanStrict(_, _, _, _)
ScanStrict(m, order, i, hash_key) ==
    IF i > Len(order) THEN None
    ELSE IF hash_key < order[i] THEN m[order[i]]
    ELSE ScanStrict(m, order, i + 1, hash_key)

\* get_node, lines 70-74: scan the entries in ascending order from index i,
\* None when the loop falls through
RECURSIVE Scan(_, _, _, _)
Scan(m, order, i, hash_key) ==
    IF i > Len(order) THEN None
    ELSE IF hash_key <= order[i] THEN m[order[i]]
    ELSE Scan(m, order, i + 1, hash_key)

\* get_node without the wrap-around of line 76
GetNodeAtNoWrap(m, hash_key) ==
    IF DOMAIN m = {} THEN None
    ELSE Scan(m, SortedKeys(DOMAIN m), 1, hash_key)

\* get_node falling back to the last entry instead of the first
GetNodeAtWrapLast(m, hash_key) ==
    IF DOMAIN m = {} THEN None
    ELSE LET found == Scan(m, SortedKeys(DOMAIN m), 1, hash_key)
         IN  IF found # None THEN found
             ELSE m[Max(DOMAIN m)]

\* get_node, lines 62-76, given the key's position
GetNodeAt(m, hash_key) ==
    IF DOMAIN m = {} THEN None
    ELSE LET found == Scan(m, SortedKeys(DOMAIN m), 1, hash_key)
         IN  IF found # None THEN found
             ELSE m[Min(DOMAIN m)]

\* the ring as a value: the map and the shared accumulator
Ring(m, h) == [keys |-> m, hasher |-> h]

\* add_node(node) on ring r, lines 40-46
AddNode(d, r, node) ==
    LET hv == HashValue(d, r.hasher, node)
    IN  Ring(AddNodeKeys(r.keys, hv.hash_key, node), hv.hasher)

\* the loop of From stopping one element early
RECURSIVE FromVecDropLast(_, _, _)
FromVecDropLast(d, r, value) ==
    IF Len(value) <= 1 THEN r
    ELSE FromVecDropLast(d, AddNode(d, r, Head(value)), Tail(value))

\* From<Vec<T>>, lines 22-24: add_node for each element in input order
RECURSIVE FromVec(_, _, _)
FromVec(d, r, value) ==
    IF value = <<>> THEN r
    ELSE FromVec(d, AddNode(d, r, Head(value)), Tail(value))

\* lines 17-21 and 31-35: the empty ring with a new hasher
EmptyRing == Ring(EmptyMap, NewHasher)

\* HashRing::from(value)
From(d, value) == FromVec(d, EmptyRing, value)

Vecs == UNION {[1..n -> Nodes] : n \in 0..MaxVec}

\* no key looked up since the last membership change
NoMemo == [k \in Keys |-> {}]

OpRec(name, arg, vec, ret, before, hbefore, prev) ==
    [name |-> name, arg |-> arg, vec |-> vec, ret |-> ret,
     before |-> before, hbefore |-> hbefore, prev |-> prev]

\* the map before the preceding call when that call was add_node(node)
Trail(last, node) ==
    IF last.name = "add" /\ last.arg = node THEN <<last.before>> ELSE <<>>

\* the Mutex with no guard alive
Free == 0

\* a thread outside any call
Idle == [pc |-> "idle", name |-> "none", arg |-> None, copy |-> <<>>,
         hash_key |-> None]

\* node values, and key values, are interchangeable names: each kind is
\* numbered in the order of its digests (distinct values may still collide)
Digests ==
    {d \in [Values -> Positions] :
        /\ \A a, b \in Nodes : a < b => d[a] <= d[b]
        /\ \A a, b \in Keys : a < b => d[a] <= d[b]}

\* the ring as constructed: Default (lines 30-36) is From of the empty Vec
Init ==
    /\ digest \in Digests
    /\ panicked = FALSE
    /\ memo = NoMemo
    /\ trail = <<>>
    /\ lock = Free
    /\ thr = [t \in Threads |-> Idle]
    /\ \E value \in Vecs :
          /\ keys = From(digest, value).keys
          /\ hasher = From(digest, value).hasher
          /\ op = OpRec("from", None, value, None, EmptyMap, NewHasher, {})

add_node(node) ==
    LET r == AddNode(digest, Ring(keys, hasher), node)
    IN  /\ ~panicked
        /\ hasher' = r.hasher
        /\ keys' = r.keys
        /\ memo' = NoMemo
        /\ op' = OpRec("add", node, <<>>, None, keys, hasher, {})
        /\ trail' = Trail(op, node)
        /\ UNCHANGED <<digest, panicked, lock, thr>>

remove_node(node) ==
    LET hv == HashValue(digest, hasher, node)
        r  == RemoveNodeKeys(keys, hv.hash_key)
    IN  /\ ~panicked
        /\ hasher' = hv.hasher
        /\ keys' = r.keys
        /\ panicked' = r.panic
        /\ memo' = NoMemo
        /\ op' = OpRec("remove", node, <<>>, None, keys, hasher, {})
        /\ trail' = Trail(op, node)
        /\ UNCHANGED <<digest, lock, thr>>

get_node(key) ==
    LET hv  == HashValue(digest, hasher, key)
        ret == GetNodeAt(keys, hv.hash_key)
    IN  /\ ~panicked
        /\ hasher' = IF DOMAIN keys = {} THEN hasher ELSE hv.hasher
        /\ memo' = [memo EXCEPT ![key] = @ \cup {ret}]
        /\ op' = OpRec("get", key, <<>>, ret, keys, hasher, memo[key])
        /\ trail' = <<>>
        /\ UNCHANGED <<keys, digest, panicked, lock, thr>>

Next ==
    \/ \E node \in Nodes : add_node(node)
    \/ \E node \in Nodes : remove_node(node)
    \/ \E key \in Keys : get_node(key)

Spec == Init /\ [][Next]_vars

(* ------------- the calls statement by statement, per thread ------------- *)
\* a lock that never blocks
CanLockAlways(l) == TRUE

\* Mutex::lock returns once no other guard is alive
CanLock(l) == l = Free

\* Clone of the accumulator behind the guard (to_owned)
ToOwned(h) == h

\* &mut self (add_node, remove_node): no other thread is in a call
Exclusive(t) == \A u \in Threads \ {t} : thr[u].pc = "idle"

\* &self (get_node): no other thread is in a &mut self call
Shared(t) == \A u \in Threads \ {t} : thr[u].pc = "idle" \/ thr[u].name = "get"

\* lines 41, 49, 66: self.hasher.lock().unwrap() of a call that thread t
\* enters; get_node comes here only past the is_empty test of line 62
Lock(t, name, arg) ==
    /\ ~panicked
    /\ thr[t].pc = "idle"
    /\ IF name = "get" THEN Shared(t) /\ DOMAIN keys # {} ELSE Exclusive(t)
    /\ CanLock(lock)
    /\ lock' = t
    /\ thr' = [thr EXCEPT ![t] = [pc |-> "locked", name |-> name, arg |-> arg,
                                  copy |-> <<>>, hash_key |-> None]]
    /\ UNCHANGED <<keys, hasher, digest, panicked, memo, op, trail>>

\* lines 62-64: get_node on an empty ring returns None without hashing
GetEmpty(t, key) ==
    /\ ~panicked
    /\ thr[t].pc = "idle"
    /\ Shared(t)
    /\ DOMAIN keys = {}
    /\ op' = OpRec("get", key, <<>>, None, keys, hasher, {})
    /\ UNCHANGED <<keys, hasher, digest, panicked, memo, trail, lock, thr>>

\* the rest of lines 41, 49, 66: .to_owned() copies the accumulator and the
\* guard, a temporary, is dropped at the end of the let statement
CopyAndUnlock(t) ==
    /\ ~panicked
    /\ thr[t].pc = "locked"
    /\ thr' = [thr EXCEPT ![t].pc = "copied", ![t].copy = ToOwned(hasher)]
    /\ hasher' = HashValue(digest, hasher, thr[t].arg).hasher
    /\ lock' = IF lock = t THEN Free ELSE lock
    /\ UNCHANGED <<keys, digest, panicked, memo, op, trail>>

\* lines 42, 50, 67: value.hash(&mut hasher) feeds the owned copy
Feed(t) ==
    /\ ~panicked
    /\ thr[t].pc = "copied"
    /\ thr' = [thr EXCEPT ![t].pc = "fed",
                          ![t].copy = Write(thr[t].copy, thr[t].arg)]
    /\ UNCHANGED <<keys, hasher, digest, panicked, memo, op, trail, lock>>

\* lines 43, 51, 68: hasher.finish() of the owned copy
FinishHash(t) ==
    /\ ~panicked
    /\ thr[t].pc = "fed"
    /\ thr' = [thr EXCEPT ![t].pc = "finished",
                          ![t].hash_key = Finish(digest, thr[t].copy)]
    /\ UNCHANGED <<keys, hasher, digest, panicked, memo, op, trail, lock>>

\* lines 45, 53-58, 70-76: the map operation of the call, and its return
Return(t) ==
    LET c == thr[t]
        r == RemoveNodeKeys(keys, c.hash_key)
    IN  /\ ~panicked
        /\ c.pc = "finished"
        /\ keys' = IF c.name = "add" THEN AddNodeKeys(keys, c.hash_key, c.arg)
                   ELSE IF c.name = "remove" THEN r.keys
                   ELSE keys
        /\ panicked' = (c.name = "remove" /\ r.panic)
        /\ op' = OpRec(c.name, c.arg, <<>>,
                       IF c.name = "get" THEN GetNodeAt(keys, c.hash_key)
                       ELSE None,
                       keys, hasher, {})
        /\ thr' = [thr EXCEPT ![t] = Idle]
        /\ UNCHANGED <<hasher, digest, memo, trail, lock>>

\* one hasher for the statement-level runs, whose interleavings do not
\* depend on the digests: the values of each kind spread over the positions
SpreadDigest ==
    [v \in Values |-> IF v \in Nodes THEN (v - 1) % NumPos
                      ELSE (v - NumNodes) % NumPos]

\* the ring of Default (lines 30-36), shared by the threads
InitThreads ==
    /\ digest = SpreadDigest
    /\ keys = EmptyRing.keys
    /\ hasher = EmptyRing.hasher
    /\ panicked = FALSE
    /\ memo = NoMemo
    /\ trail = <<>>
    /\ op = OpRec("from", None, <<>>, None, EmptyMap, NewHasher, {})
    /\ lock = Free
    /\ thr = [t \in Threads |-> Idle]

NextThreads ==
    \/ \E t \in Threads, node \in Nodes : Lock(t, "add", node)
    \/ \E t \in Threads, node \in Nodes : Lock(t, "remove", node)
    \/ \E t \in Threads, key \in Keys : Lock(t, "get", key)
    \/ \E t \in Threads, key \in Keys : GetEmpty(t, key)
    \/ \E t \in Threads : CopyAndUnlock(t)
    \/ \E t \in Threads : Feed(t)
    \/ \E t \in Threads : FinishHash(t)
    \/ \E t \in Threads : Return(t)

SpecThreads == InitThreads /\ [][NextThreads]_vars

TypeOK ==
    /\ DOMAIN keys \subseteq Positions
    /\ \A p \in DOMAIN keys : keys[p] \in Nodes
    /\ hasher \in Seq(Values)
    /\ digest \in [Values -> Positions]
    /\ panicked \in BOOLEAN
    /\ memo \in [Keys -> SUBSET (Nodes \cup {None})]
    /\ op.name \in {"from", "add", "remove", "get"}
    /\ Len(trail) <= 1
    /\ lock \in Threads \cup {Free}
    /\ \A t \in Threads :
          thr[t].pc \in {"idle", "locked", "copied", "fed", "finished"}

(* ------------------------- the claims ---------------------------------- *)
\* hash(v): the position a clean hasher gives v
Hash(v) == Finish(digest, Write(NewHasher, v))

\* the clockwise successor position of h among the positions S (S # {}):
\* the smallest position >= h, the lowest position if there is none
Successor(S, h) ==
    IF \E p \in S : p >= h
    THEN CHOOSE p \in S : p >= h /\ \A q \in S : q >= h => p <= q
    ELSE CHOOSE p \in S : \A q \in S : p <= q

\* what a lookup of key k returns on map m
Lookup(m, k) == GetNodeAt(m, Hash(k))

\* node n is stored in map m
Stored(m, n) == \E p \in DOMAIN m : m[p] = n

\* C1: on a non-empty ring get_node(k) returns the node at the smallest
\* stored position >= hash(k), and the node at the lowest stored position
\* when no stored position is >= hash(k).
C1_ClockwiseSuccessor ==
    /\ (op.name = "get" /\ DOMAIN keys # {})
          => op.ret = keys[Successor(DOMAIN keys, Hash(op.arg))]
    /\ \A k \in Keys :
          DOMAIN keys # {}
             => Lookup(keys, k) = keys[Successor(DOMAIN keys, Hash(k))]

\* C1 witness: a lookup past the highest of several stored positions has
\* returned the node at the lowest one.
C1_Witness ==
    /\ op.name = "get"
    /\ Cardinality(DOMAIN keys) >= 2
    /\ \A p \in DOMAIN keys : p < Hash(op.arg)
    /\ op.ret = keys[Min(DOMAIN keys)]

\* C2: get_node returns None exactly when the ring has no entries, and on
\* a non-empty ring it returns a node that is stored in the ring.
C2_NoneIffEmpty ==
    op.name = "get" =>
        /\ (op.ret = None) <=> (DOMAIN keys = {})
        /\ DOMAIN keys # {} => Stored(keys, op.ret)

\* C2 witness: a lookup on a non-empty ring whose key lies past every
\* stored position has returned a stored node.
C2_Witness ==
    /\ op.name = "get"
    /\ DOMAIN keys # {}
    /\ \A p \in DOMAIN keys : p < Hash(op.arg)
    /\ Stored(keys, op.ret)

\* C3 (as claimed): remove_node(n) on a non-empty ring whose stored
\* positions are all smaller than hash(n) completes normally and removes
\* the entry at the lowest stored position.
C3_RemoveWraps ==
    (/\ op.name = "remove"
     /\ DOMAIN op.before # {}
     /\ \A p \in DOMAIN op.before : p < Hash(op.arg))
        => /\ ~panicked
           /\ keys = Remove(op.before, Min(DOMAIN op.before))

\* C4 (as claimed): no sequence of calls ever panics.
C4_NeverPanics == ~panicked

\* C5: remove_node on an empty ring does not panic and leaves the ring
\* empty.
C5_RemoveOnEmpty ==
    (op.name = "remove" /\ DOMAIN op.before = {})
        => /\ ~panicked
           /\ keys = EmptyMap
           /\ hasher = op.hbefore

\* C5 witness: remove_node has been called on an empty ring.
C5_Witness ==
    /\ op.name = "remove"
    /\ DOMAIN op.before = {}
    /\ ~panicked

\* the other stored positions of map m, seen from position p
Others(m, p) == DOMAIN m \ {p}

\* C6 (as claimed): after remove_node(X) of a stored node X, a key that
\* resolved to another node still resolves to it, and a key that resolved
\* to X resolves to the node at X's clockwise successor position.
C6_RemovalDisruption ==
    (op.name = "remove" /\ Stored(op.before, op.arg)) =>
        \A k \in Keys :
            LET X == op.arg
                b == Lookup(op.before, k)
                a == Lookup(keys, k)
                S == Others(op.before, Hash(X))
            IN  /\ b # X => a = b
                /\ b = X => /\ S # {}
                            /\ a = op.before[Successor(S, Hash(X))]

\* C6 (amended): the same, and a key that resolved to X resolves to no
\* node when X was the only stored node.
C6_RemovalDisruptionAmended ==
    (op.name = "remove" /\ Stored(op.before, op.arg)) =>
        \A k \in Keys :
            LET X == op.arg
                b == Lookup(op.before, k)
                a == Lookup(keys, k)
                S == Others(op.before, Hash(X))
            IN  /\ ~panicked
                /\ b # X => a = b
                /\ (b = X /\ S # {})
                      => a = op.before[Successor(S, Hash(X))]
                /\ (b = X /\ S = {}) => a = None

\* C6 witness: a stored node with a neighbour has been removed, one key
\* that resolved to it has moved and another key has kept its node.
C6_Witness ==
    /\ op.name = "remove"
    /\ Stored(op.before, op.arg)
    /\ Cardinality(DOMAIN op.before) >= 2
    /\ \E k \in Keys : Lookup(op.before, k) = op.arg
    /\ \E k \in Keys : Lookup(op.before, k) # op.arg

\* the ring arc from Y's clockwise predecessor (exclusive) to Y's position
\* (inclusive) in map m, which holds Y at position y; the whole ring when Y
\* is the only node
InArc(m, y, h) ==
    LET S == Others(m, y)
    IN  IF S = {} THEN TRUE
        ELSE LET below == {p \in S : p < y}
                 pred  == IF below # {} THEN Max(below) ELSE Max(S)
             IN  IF pred < y THEN pred < h /\ h <= y
                 ELSE h > pred \/ h <= y

\* C7: after add_node(Y) a lookup differs from the lookup before only for
\* keys on the arc from Y's predecessor (exclusive) to Y (inclusive), and
\* then it returns Y; every other key resolves as before.
C7_InsertionDisruption ==
    op.name = "add" =>
        \A k \in Keys :
            LET Y == op.arg
                b == Lookup(op.before, k)
                a == Lookup(keys, k)
                arc == InArc(keys, Hash(Y), Hash(k))
            IN  /\ a # b => (arc /\ a = Y)
                /\ ~arc => a = b

\* C7 witness: a node has been added to a ring of at least two nodes,
\* taking one key over and leaving another key where it was.
C7_Witness ==
    /\ op.name = "add"
    /\ Cardinality(DOMAIN op.before) >= 2
    /\ Hash(op.arg) \notin DOMAIN op.before
    /\ \E k \in Keys : Lookup(op.before, k) # Lookup(keys, k)
    /\ \E k \in Keys : ~InArc(keys, Hash(op.arg), Hash(k))

\* C8: add_node(n) completes and stores n at hash(n); the ring grows by
\* one entry if the position was free and keeps its size if it was
\* occupied; the entries at other positions are untouched.
C8_AddNodeEffect ==
    op.name = "add" =>
        LET n == op.arg
            h == Hash(n)
        IN  /\ ~panicked
            /\ h \in DOMAIN keys /\ keys[h] = n
            /\ DOMAIN keys = DOMAIN op.before \cup {h}
            /\ h \notin DOMAIN op.before
                  => Cardinality(DOMAIN keys)
                       = Cardinality(DOMAIN op.before) + 1
            /\ h \in DOMAIN op.before
                  => Cardinality(DOMAIN keys) = Cardinality(DOMAIN op.before)
            /\ \A p \in DOMAIN op.before : p # h => keys[p] = op.before[p]

\* C8 witness: add_node has replaced a distinct node that occupied the
\* position of the added one.
C8_Witness ==
    /\ op.name = "add"
    /\ Hash(op.arg) \in DOMAIN op.before
    /\ op.before[Hash(op.arg)] # op.arg
    /\ Cardinality(DOMAIN op.before) >= 2

\* the reorderings of a vector
Perms(value) ==
    LET n == Len(value)
    IN  {[i \in 1..n |-> value[f[i]]] :
            f \in {g \in [1..n -> 1..n] : \A i, j \in 1..n :
                                              g[i] = g[j] => i = j}}

\* C9 (as claimed): building the ring from any reordering of the input
\* gives the same position -> node mapping.
C9_OrderIndependent ==
    op.name = "from" =>
        \A w \in Perms(op.vec) : From(digest, w).keys = keys

\* C9 (amended): any reordering gives the same stored positions and the
\* same node at every position that one distinct node of the input hashes
\* to; a position that distinct nodes collide on holds the one that comes
\* last in the input.
C9_OrderIndependentAmended ==
    op.name = "from" =>
        /\ DOMAIN keys = {Hash(op.vec[i]) : i \in 1..Len(op.vec)}
        /\ \A p \in DOMAIN keys :
              keys[p] = op.vec[Max({i \in 1..Len(op.vec) :
                                       Hash(op.vec[i]) = p})]
        /\ \A w \in Perms(op.vec) :
              LET r == From(digest, w).keys
              IN  /\ DOMAIN r = DOMAIN keys
                  /\ \A p \in DOMAIN keys :
                        (\A i, j \in 1..Len(op.vec) :
                            (Hash(op.vec[i]) = p /\ Hash(op.vec[j]) = p)
                               => op.vec[i] = op.vec[j])
                           => r[p] = keys[p]

\* C9 witness: a ring has been built from two distinct nodes at distinct
\* positions.
C9_Witness ==
    /\ op.name = "from"
    /\ Len(op.vec) = 2
    /\ op.vec[1] # op.vec[2]
    /\ Hash(op.vec[1]) # Hash(op.vec[2])
    /\ Cardinality(DOMAIN keys) = 2

\* C10: a get_node call returns what the previous get_node call with the
\* same key returned when no add_node/remove_node came in between, and
\* leaves the mapping and the shared hasher unchanged.
C10_LookupDeterministic ==
    op.name = "get" =>
        /\ \A r \in op.prev : op.ret = r
        /\ keys = op.before
        /\ hasher = op.hbefore

\* C10 witness: a key has been looked up a second time on a non-empty
\* ring, with a lookup of another key in between.
C10_Witness ==
    /\ op.name = "get"
    /\ op.prev # {}
    /\ op.ret \in Nodes
    /\ \A k \in Keys : memo[k] # {}

\* C12: remove_node(n) on a non-empty ring with a stored position >=
\* hash(n) removes exactly the entry at the smallest such position, whether
\* or not that entry is n; every other entry is unchanged.
C12_RemoveSuccessorEntry ==
    (/\ op.name = "remove"
     /\ \E p \in DOMAIN op.before : p >= Hash(op.arg))
        => LET ge == {p \in DOMAIN op.before : p >= Hash(op.arg)}
               q  == CHOOSE p \in ge : \A r \in ge : p <= r
           IN  /\ ~panicked
               /\ DOMAIN keys = DOMAIN op.before \ {q}
               /\ \A p \in DOMAIN keys : keys[p] = op.before[p]

\* C12 witness: remove_node(n) has removed the entry of another node,
\* stored past hash(n), from a ring that does not hold n, and has left an
\* entry in place.
C12_Witness ==
    /\ op.name = "remove"
    /\ ~Stored(op.before, op.arg)
    /\ Hash(op.arg) \notin DOMAIN op.before
    /\ Cardinality(DOMAIN op.before) >= 2
    /\ Cardinality(DOMAIN keys) = Cardinality(DOMAIN op.before) - 1

\* C14: every stored entry p -> n has p = hash(n): each node sits at the
\* position its own hash assigns (and a position holds one node, the map
\* being a function).
C14_EntriesAtOwnHash ==
    \A p \in DOMAIN keys : keys[p] \in Nodes /\ p = Hash(keys[p])

\* C14 witness: a removal has left at least two entries in the ring.
C14_Witness ==
    /\ op.name = "remove"
    /\ ~panicked
    /\ Cardinality(DOMAIN keys) >= 2
    /\ Cardinality(DOMAIN op.before) > Cardinality(DOMAIN keys)

\* C15: add_node(n) immediately followed by remove_node(n) removes the
\* entry at hash(n) and, when hash(n) was unoccupied before the add,
\* restores the mapping that existed before the add.
C15_AddThenRemove ==
    (op.name = "remove" /\ trail # <<>>)
        => /\ ~panicked
           /\ Hash(op.arg) \in DOMAIN op.before
           /\ keys = Remove(op.before, Hash(op.arg))
           /\ Hash(op.arg) \notin DOMAIN trail[1] => keys = trail[1]

\* C15 witness: a node has been added at a free position of a ring that
\* has an entry past it, and removed again by the next call.
C15_Witness ==
    /\ op.name = "remove"
    /\ trail # <<>>
    /\ Hash(op.arg) \notin DOMAIN trail[1]
    /\ \E p \in DOMAIN trail[1] : p > Hash(op.arg)

\* C16: a second add_node(n) right after add_node(n) leaves the ring as
\* the first one left it: same positions, same nodes, same size.
C16_AddTwice ==
    (op.name = "add" /\ trail # <<>>)
        => /\ keys = op.before
           /\ hasher = op.hbefore
           /\ ~panicked

\* C16 witness: a node has been added twice in a row, the first time
\* replacing a distinct node at its position.
C16_Witness ==
    /\ op.name = "add"
    /\ trail # <<>>
    /\ Hash(op.arg) \in DOMAIN trail[1]
    /\ trail[1][Hash(op.arg)] # op.arg

\* C17: while the entry add_node(n) made is in place (not overwritten, not
\* removed), a lookup of a key whose position is hash(n) returns n, and
\* remove_node(n) removes exactly that entry.
C17_ExactMatch ==
    /\ \A n \in Nodes, k \in Keys :
          (Hash(n) \in DOMAIN keys /\ keys[Hash(n)] = n /\ Hash(k) = Hash(n))
             => Lookup(keys, k) = n
    /\ (op.name = "get" /\ Hash(op.arg) \in DOMAIN op.before)
          => op.ret = op.before[Hash(op.arg)]
    /\ (op.name = "remove" /\ Stored(op.before, op.arg))
          => /\ ~panicked
             /\ keys = Remove(op.before, Hash(op.arg))
             /\ op.before[Hash(op.arg)] = op.arg

\* C17 witness: remove_node(n) has removed n's own entry from a ring that
\* holds a further entry past it.
C17_Witness ==
    /\ op.name = "remove"
    /\ Stored(op.before, op.arg)
    /\ \E p \in DOMAIN keys : p > Hash(op.arg)
    /\ ~Stored(keys, op.arg)

\* the threads that are at one of the given positions of a call
At(pcs) == {t \in Threads : thr[t].pc \in pcs}

\* C11: every hash computation starts from the clean hasher: the shared
\* accumulator is never modified, every copy taken of it is clean, and the
\* position computed for a value is hash(value) whatever ran before or runs
\* alongside.
C11_CleanHasher ==
    /\ hasher = NewHasher
    /\ \A t \in At({"copied"}) : thr[t].copy = NewHasher
    /\ \A t \in At({"fed", "finished"}) :
          thr[t].copy = Write(NewHasher, thr[t].arg)
    /\ \A t \in At({"finished"}) : thr[t].hash_key = Hash(thr[t].arg)

\* C11 witness: after an earlier call, one thread has computed the position
\* of a key while another thread is hashing a different key.
C11_Witness ==
    /\ DOMAIN keys # {}
    /\ \E t \in At({"finished"}), u \in At({"copied", "fed"}) :
          /\ thr[t].arg # thr[u].arg
          /\ Hash(thr[t].arg) # Hash(thr[u].arg)

\* C13 (as claimed): the lock is held from before the copy is taken until
\* the value has been fed and the digest read, so no two callers are
\* feeding or finishing a hash at the same time.
C13_LockHeldThroughHash ==
    /\ \A t \in At({"locked", "copied", "fed"}) : lock = t
    /\ Cardinality(At({"copied", "fed"})) <= 1

\* C13 (amended): the lock is held exactly while the copy is being taken,
\* and released before the value is fed and the digest read; no two callers
\* are taking the copy at the same time.
C13_LockHeldForCopy ==
    /\ \A t \in Threads : (thr[t].pc = "locked") <=> (lock = t)
    /\ \A t \in At({"copied", "fed", "finished"}) : lock # t
    /\ Cardinality(At({"locked"})) <= 1

\* C13 witness: one caller holds the lock for its copy while another
\* caller, past its own copy, is feeding its value without the lock.
C13_Witness ==
    /\ \E t \in At({"locked"}) : lock = t
    /\ At({"copied"}) # {}
====
